---------------------------- MODULE Spec2Model ----------------------------
(* A model of the FastAPI advanced-validation demo (main.py, models.py).   *)
(*                                                                         *)
(* A text (a Python str) is the sequence of its code points: "ab1" is      *)
(* <<97, 98, 49>>.  The value None of Optional[str] is <<-1>>, which is no *)
(* text because -1 is no code point.  Error messages and timestamps, which *)
(* no code of the program reads, are written as strings.  The character    *)
(* tables are those of Unicode 14.0, which CPython 3.11 carries.           *)
EXTENDS Integers, Sequences, FiniteSets, Bags, TLC

VARIABLES
    fake_db,     \* main.py: the process-wide list of stored records
    clock,       \* the last reading datetime.now() gave
    request,     \* the last HTTP request served (sequential service)
    response,    \* its response: status code and body
    field,       \* validator under application (validator specification)
    value,       \* the raw field value handed to that validator
    outcome,     \* what the validator did: returned a value or raised
    conn_pc,     \* per overlapping request: where its coroutine stands
    conn_req,    \* per overlapping request: the request body
    conn_user,   \* per overlapping request: the handler's local db_user
    conn_resp    \* per overlapping request: the response sent

vars == <<fake_db, clock, request, response, field, value, outcome,
          conn_pc, conn_req, conn_user, conn_resp>>

sysVars == <<fake_db, clock, request, response>>
valVars == <<field, value, outcome>>
connVars == <<conn_pc, conn_req, conn_user, conn_resp>>

-----------------------------------------------------------------------------
(* Character classes.                                                      *)

\* [A-Z] of the regular expressions
UpperLatin == 65..90

\* [a-z]
LowerLatin == 97..122

\* [0-9]
Digits == 48..57

\* [!@#$%^&*(),.?":{}|<>]
SpecialChars == {33, 64, 35, 36, 37, 94, 38, 42, 40, 41, 44, 46, 63, 34, 58, 123, 125, 124, 60, 62}

\* \s of a str pattern, which is also what str.strip() removes: the 29 code
\* points of str.isspace() (U+0009-U+000D, U+001C-U+0020, U+0085, U+00A0,
\* U+1680, U+2000-U+200A, U+2028, U+2029, U+202F, U+205F, U+3000)
Whitespace == (9..13) \cup (28..32) \cup {133, 160, 5760} \cup (8192..8202)
              \cup {8232, 8233, 8239, 8287, 12288}

\* c lies in one of the ranges <<first, last>> of the table
InRanges(c, table) == \E r \in table : r[1] <= c /\ c <= r[2]

\* the code points of str.isalpha(), as ranges
AlphaRanges == {
    <<65, 90>>, <<97, 122>>, <<170, 170>>, <<181, 181>>, <<186, 186>>,
    <<192, 214>>, <<216, 246>>, <<248, 705>>, <<710, 721>>, <<736, 740>>,
    <<748, 748>>, <<750, 750>>, <<880, 884>>, <<886, 887>>, <<890, 893>>,
    <<895, 895>>, <<902, 902>>, <<904, 906>>, <<908, 908>>, <<910, 929>>,
    <<931, 1013>>, <<1015, 1153>>, <<1162, 1327>>, <<1329, 1366>>,
    <<1369, 1369>>, <<1376, 1416>>, <<1488, 1514>>, <<1519, 1522>>,
    <<1568, 1610>>, <<1646, 1647>>, <<1649, 1747>>, <<1749, 1749>>,
    <<1765, 1766>>, <<1774, 1775>>, <<1786, 1788>>, <<1791, 1791>>,
    <<1808, 1808>>, <<1810, 1839>>, <<1869, 1957>>, <<1969, 1969>>,
    <<1994, 2026>>, <<2036, 2037>>, <<2042, 2042>>, <<2048, 2069>>,
    <<2074, 2074>>, <<2084, 2084>>, <<2088, 2088>>, <<2112, 2136>>,
    <<2144, 2154>>, <<2160, 2183>>, <<2185, 2190>>, <<2208, 2249>>,
    <<2308, 2361>>, <<2365, 2365>>, <<2384, 2384>>, <<2392, 2401>>,
    <<2417, 2432>>, <<2437, 2444>>, <<2447, 2448>>, <<2451, 2472>>,
    <<2474, 2480>>, <<2482, 2482>>, <<2486, 2489>>, <<2493, 2493>>,
    <<2510, 2510>>, <<2524, 2525>>, <<2527, 2529>>, <<2544, 2545>>,
    <<2556, 2556>>, <<2565, 2570>>, <<2575, 2576>>, <<2579, 2600>>,
    <<2602, 2608>>, <<2610, 2611>>, <<2613, 2614>>, <<2616, 2617>>,
    <<2649, 2652>>, <<2654, 2654>>, <<2674, 2676>>, <<2693, 2701>>,
    <<2703, 2705>>, <<2707, 2728>>, <<2730, 2736>>, <<2738, 2739>>,
    <<2741, 2745>>, <<2749, 2749>>, <<2768, 2768>>, <<2784, 2785>>,
    <<2809, 2809>>, <<2821, 2828>>, <<2831, 2832>>, <<2835, 2856>>,
    <<2858, 2864>>, <<2866, 2867>>, <<2869, 2873>>, <<2877, 2877>>,
    <<2908, 2909>>, <<2911, 2913>>, <<2929, 2929>>, <<2947, 2947>>,
    <<2949, 2954>>, <<2958, 2960>>, <<2962, 2965>>, <<2969, 2970>>,
    <<2972, 2972>>, <<2974, 2975>>, <<2979, 2980>>, <<2984, 2986>>,
    <<2990, 3001>>, <<3024, 3024>>, <<3077, 3084>>, <<3086, 3088>>,
    <<3090, 3112>>, <<3114, 3129>>, <<3133, 3133>>, <<3160, 3162>>,
    <<3165, 3165>>, <<3168, 3169>>, <<3200, 3200>>, <<3205, 3212>>,
    <<3214, 3216>>, <<3218, 3240>>, <<3242, 3251>>, <<3253, 3257>>,
    <<3261, 3261>>, <<3293, 3294>>, <<3296, 3297>>, <<3313, 3314>>,
    <<3332, 3340>>, <<3342, 3344>>, <<3346, 3386>>, <<3389, 3389>>,
    <<3406, 3406>>, <<3412, 3414>>, <<3423, 3425>>, <<3450, 3455>>,
    <<3461, 3478>>, <<3482, 3505>>, <<3507, 3515>>, <<3517, 3517>>,
    <<3520, 3526>>, <<3585, 3632>>, <<3634, 3635>>, <<3648, 3654>>,
    <<3713, 3714>>, <<3716, 3716>>, <<3718, 3722>>, <<3724, 3747>>,
    <<3749, 3749>>, <<3751, 3760>>, <<3762, 3763>>, <<3773, 3773>>,
    <<3776, 3780>>, <<3782, 3782>>, <<3804, 3807>>, <<3840, 3840>>,
    <<3904, 3911>>, <<3913, 3948>>, <<3976, 3980>>, <<4096, 4138>>,
    <<4159, 4159>>, <<4176, 4181>>, <<4186, 4189>>, <<4193, 4193>>,
    <<4197, 4198>>, <<4206, 4208>>, <<4213, 4225>>, <<4238, 4238>>,
    <<4256, 4293>>, <<4295, 4295>>, <<4301, 4301>>, <<4304, 4346>>,
    <<4348, 4680>>, <<4682, 4685>>, <<4688, 4694>>, <<4696, 4696>>,
    <<4698, 4701>>, <<4704, 4744>>, <<4746, 4749>>, <<4752, 4784>>,
    <<4786, 4789>>, <<4792, 4798>>, <<4800, 4800>>, <<4802, 4805>>,
    <<4808, 4822>>, <<4824, 4880>>, <<4882, 4885>>, <<4888, 4954>>,
    <<4992, 5007>>, <<5024, 5109>>, <<5112, 5117>>, <<5121, 5740>>,
    <<5743, 5759>>, <<5761, 5786>>, <<5792, 5866>>, <<5873, 5880>>,
    <<5888, 5905>>, <<5919, 5937>>, <<5952, 5969>>, <<5984, 5996>>,
    <<5998, 6000>>, <<6016, 6067>>, <<6103, 6103>>, <<6108, 6108>>,
    <<6176, 6264>>, <<6272, 6276>>, <<6279, 6312>>, <<6314, 6314>>,
    <<6320, 6389>>, <<6400, 6430>>, <<6480, 6509>>, <<6512, 6516>>,
    <<6528, 6571>>, <<6576, 6601>>, <<6656, 6678>>, <<6688, 6740>>,
    <<6823, 6823>>, <<6917, 6963>>, <<6981, 6988>>, <<7043, 7072>>,
    <<7086, 7087>>, <<7098, 7141>>, <<7168, 7203>>, <<7245, 7247>>,
    <<7258, 7293>>, <<7296, 7304>>, <<7312, 7354>>, <<7357, 7359>>,
    <<7401, 7404>>, <<7406, 7411>>, <<7413, 7414>>, <<7418, 7418>>,
    <<7424, 7615>>, <<7680, 7957>>, <<7960, 7965>>, <<7968, 8005>>,
    <<8008, 8013>>, <<8016, 8023>>, <<8025, 8025>>, <<8027, 8027>>,
    <<8029, 8029>>, <<8031, 8061>>, <<8064, 8116>>, <<8118, 8124>>,
    <<8126, 8126>>, <<8130, 8132>>, <<8134, 8140>>, <<8144, 8147>>,
    <<8150, 8155>>, <<8160, 8172>>, <<8178, 8180>>, <<8182, 8188>>,
    <<8305, 8305>>, <<8319, 8319>>, <<8336, 8348>>, <<8450, 8450>>,
    <<8455, 8455>>, <<8458, 8467>>, <<8469, 8469>>, <<8473, 8477>>,
    <<8484, 8484>>, <<8486, 8486>>, <<8488, 8488>>, <<8490, 8493>>,
    <<8495, 8505>>, <<8508, 8511>>, <<8517, 8521>>, <<8526, 8526>>,
    <<8579, 8580>>, <<11264, 11492>>, <<11499, 11502>>, <<11506, 11507>>,
    <<11520, 11557>>, <<11559, 11559>>, <<11565, 11565>>, <<11568, 11623>>,
    <<11631, 11631>>, <<11648, 11670>>, <<11680, 11686>>, <<11688, 11694>>,
    <<11696, 11702>>, <<11704, 11710>>, <<11712, 11718>>, <<11720, 11726>>,
    <<11728, 11734>>, <<11736, 11742>>, <<11823, 11823>>, <<12293, 12294>>,
    <<12337, 12341>>, <<12347, 12348>>, <<12353, 12438>>, <<12445, 12447>>,
    <<12449, 12538>>, <<12540, 12543>>, <<12549, 12591>>, <<12593, 12686>>,
    <<12704, 12735>>, <<12784, 12799>>, <<13312, 19903>>, <<19968, 42124>>,
    <<42192, 42237>>, <<42240, 42508>>, <<42512, 42527>>, <<42538, 42539>>,
    <<42560, 42606>>, <<42623, 42653>>, <<42656, 42725>>, <<42775, 42783>>,
    <<42786, 42888>>, <<42891, 42954>>, <<42960, 42961>>, <<42963, 42963>>,
    <<42965, 42969>>, <<42994, 43009>>, <<43011, 43013>>, <<43015, 43018>>,
    <<43020, 43042>>, <<43072, 43123>>, <<43138, 43187>>, <<43250, 43255>>,
    <<43259, 43259>>, <<43261, 43262>>, <<43274, 43301>>, <<43312, 43334>>,
    <<43360, 43388>>, <<43396, 43442>>, <<43471, 43471>>, <<43488, 43492>>,
    <<43494, 43503>>, <<43514, 43518>>, <<43520, 43560>>, <<43584, 43586>>,
    <<43588, 43595>>, <<43616, 43638>>, <<43642, 43642>>, <<43646, 43695>>,
    <<43697, 43697>>, <<43701, 43702>>, <<43705, 43709>>, <<43712, 43712>>,
    <<43714, 43714>>, <<43739, 43741>>, <<43744, 43754>>, <<43762, 43764>>,
    <<43777, 43782>>, <<43785, 43790>>, <<43793, 43798>>, <<43808, 43814>>,
    <<43816, 43822>>, <<43824, 43866>>, <<43868, 43881>>, <<43888, 44002>>,
    <<44032, 55203>>, <<55216, 55238>>, <<55243, 55291>>, <<63744, 64109>>,
    <<64112, 64217>>, <<64256, 64262>>, <<64275, 64279>>, <<64285, 64285>>,
    <<64287, 64296>>, <<64298, 64310>>, <<64312, 64316>>, <<64318, 64318>>,
    <<64320, 64321>>, <<64323, 64324>>, <<64326, 64433>>, <<64467, 64829>>,
    <<64848, 64911>>, <<64914, 64967>>, <<65008, 65019>>, <<65136, 65140>>,
    <<65142, 65276>>, <<65313, 65338>>, <<65345, 65370>>, <<65382, 65470>>,
    <<65474, 65479>>, <<65482, 65487>>, <<65490, 65495>>, <<65498, 65500>>,
    <<65536, 65547>>, <<65549, 65574>>, <<65576, 65594>>, <<65596, 65597>>,
    <<65599, 65613>>, <<65616, 65629>>, <<65664, 65786>>, <<66176, 66204>>,
    <<66208, 66256>>, <<66304, 66335>>, <<66349, 66368>>, <<66370, 66377>>,
    <<66384, 66421>>, <<66432, 66461>>, <<66464, 66499>>, <<66504, 66511>>,
    <<66560, 66717>>, <<66736, 66771>>, <<66776, 66811>>, <<66816, 66855>>,
    <<66864, 66915>>, <<66928, 66938>>, <<66940, 66954>>, <<66956, 66962>>,
    <<66964, 66965>>, <<66967, 66977>>, <<66979, 66993>>, <<66995, 67001>>,
    <<67003, 67004>>, <<67072, 67382>>, <<67392, 67413>>, <<67424, 67431>>,
    <<67456, 67461>>, <<67463, 67504>>, <<67506, 67514>>, <<67584, 67589>>,
    <<67592, 67592>>, <<67594, 67637>>, <<67639, 67640>>, <<67644, 67644>>,
    <<67647, 67669>>, <<67680, 67702>>, <<67712, 67742>>, <<67808, 67826>>,
    <<67828, 67829>>, <<67840, 67861>>, <<67872, 67897>>, <<67968, 68023>>,
    <<68030, 68031>>, <<68096, 68096>>, <<68112, 68115>>, <<68117, 68119>>,
    <<68121, 68149>>, <<68192, 68220>>, <<68224, 68252>>, <<68288, 68295>>,
    <<68297, 68324>>, <<68352, 68405>>, <<68416, 68437>>, <<68448, 68466>>,
    <<68480, 68497>>, <<68608, 68680>>, <<68736, 68786>>, <<68800, 68850>>,
    <<68864, 68899>>, <<69248, 69289>>, <<69296, 69297>>, <<69376, 69404>>,
    <<69415, 69415>>, <<69424, 69445>>, <<69488, 69505>>, <<69552, 69572>>,
    <<69600, 69622>>, <<69635, 69687>>, <<69745, 69746>>, <<69749, 69749>>,
    <<69763, 69807>>, <<69840, 69864>>, <<69891, 69926>>, <<69956, 69956>>,
    <<69959, 69959>>, <<69968, 70002>>, <<70006, 70006>>, <<70019, 70066>>,
    <<70081, 70084>>, <<70106, 70106>>, <<70108, 70108>>, <<70144, 70161>>,
    <<70163, 70187>>, <<70272, 70278>>, <<70280, 70280>>, <<70282, 70285>>,
    <<70287, 70301>>, <<70303, 70312>>, <<70320, 70366>>, <<70405, 70412>>,
    <<70415, 70416>>, <<70419, 70440>>, <<70442, 70448>>, <<70450, 70451>>,
    <<70453, 70457>>, <<70461, 70461>>, <<70480, 70480>>, <<70493, 70497>>,
    <<70656, 70708>>, <<70727, 70730>>, <<70751, 70753>>, <<70784, 70831>>,
    <<70852, 70853>>, <<70855, 70855>>, <<71040, 71086>>, <<71128, 71131>>,
    <<71168, 71215>>, <<71236, 71236>>, <<71296, 71338>>, <<71352, 71352>>,
    <<71424, 71450>>, <<71488, 71494>>, <<71680, 71723>>, <<71840, 71903>>,
    <<71935, 71942>>, <<71945, 71945>>, <<71948, 71955>>, <<71957, 71958>>,
    <<71960, 71983>>, <<71999, 71999>>, <<72001, 72001>>, <<72096, 72103>>,
    <<72106, 72144>>, <<72161, 72161>>, <<72163, 72163>>, <<72192, 72192>>,
    <<72203, 72242>>, <<72250, 72250>>, <<72272, 72272>>, <<72284, 72329>>,
    <<72349, 72349>>, <<72368, 72440>>, <<72704, 72712>>, <<72714, 72750>>,
    <<72768, 72768>>, <<72818, 72847>>, <<72960, 72966>>, <<72968, 72969>>,
    <<72971, 73008>>, <<73030, 73030>>, <<73056, 73061>>, <<73063, 73064>>,
    <<73066, 73097>>, <<73112, 73112>>, <<73440, 73458>>, <<73648, 73648>>,
    <<73728, 74649>>, <<74880, 75075>>, <<77712, 77808>>, <<77824, 78894>>,
    <<82944, 83526>>, <<92160, 92728>>, <<92736, 92766>>, <<92784, 92862>>,
    <<92880, 92909>>, <<92928, 92975>>, <<92992, 92995>>, <<93027, 93047>>,
    <<93053, 93071>>, <<93760, 93823>>, <<93952, 94026>>, <<94032, 94032>>,
    <<94099, 94111>>, <<94176, 94177>>, <<94179, 94179>>, <<94208, 100343>>,
    <<100352, 101589>>, <<101632, 101640>>, <<110576, 110579>>,
    <<110581, 110587>>, <<110589, 110590>>, <<110592, 110882>>,
    <<110928, 110930>>, <<110948, 110951>>, <<110960, 111355>>,
    <<113664, 113770>>, <<113776, 113788>>, <<113792, 113800>>,
    <<113808, 113817>>, <<119808, 119892>>, <<119894, 119964>>,
    <<119966, 119967>>, <<119970, 119970>>, <<119973, 119974>>,
    <<119977, 119980>>, <<119982, 119993>>, <<119995, 119995>>,
    <<119997, 120003>>, <<120005, 120069>>, <<120071, 120074>>,
    <<120077, 120084>>, <<120086, 120092>>, <<120094, 120121>>,
    <<120123, 120126>>, <<120128, 120132>>, <<120134, 120134>>,
    <<120138, 120144>>, <<120146, 120485>>, <<120488, 120512>>,
    <<120514, 120538>>, <<120540, 120570>>, <<120572, 120596>>,
    <<120598, 120628>>, <<120630, 120654>>, <<120656, 120686>>,
    <<120688, 120712>>, <<120714, 120744>>, <<120746, 120770>>,
    <<120772, 120779>>, <<122624, 122654>>, <<123136, 123180>>,
    <<123191, 123197>>, <<123214, 123214>>, <<123536, 123565>>,
    <<123584, 123627>>, <<124896, 124902>>, <<124904, 124907>>,
    <<124909, 124910>>, <<124912, 124926>>, <<124928, 125124>>,
    <<125184, 125251>>, <<125259, 125259>>, <<126464, 126467>>,
    <<126469, 126495>>, <<126497, 126498>>, <<126500, 126500>>,
    <<126503, 126503>>, <<126505, 126514>>, <<126516, 126519>>,
    <<126521, 126521>>, <<126523, 126523>>, <<126530, 126530>>,
    <<126535, 126535>>, <<126537, 126537>>, <<126539, 126539>>,
    <<126541, 126543>>, <<126545, 126546>>, <<126548, 126548>>,
    <<126551, 126551>>, <<126553, 126553>>, <<126555, 126555>>,
    <<126557, 126557>>, <<126559, 126559>>, <<126561, 126562>>,
    <<126564, 126564>>, <<126567, 126570>>, <<126572, 126578>>,
    <<126580, 126583>>, <<126585, 126588>>, <<126590, 126590>>,
    <<126592, 126601>>, <<126603, 126619>>, <<126625, 126627>>,
    <<126629, 126633>>, <<126635, 126651>>, <<131072, 173791>>,
    <<173824, 177976>>, <<177984, 178205>>, <<178208, 183969>>,
    <<183984, 191456>>, <<194560, 195101>>, <<196608, 201546>>
}

\* the code points of str.isnumeric(), as ranges; they include those of
\* str.isdecimal() and str.isdigit()
NumericRanges == {
    <<48, 57>>, <<178, 179>>, <<185, 185>>, <<188, 190>>, <<1632, 1641>>,
    <<1776, 1785>>, <<1984, 1993>>, <<2406, 2415>>, <<2534, 2543>>,
    <<2548, 2553>>, <<2662, 2671>>, <<2790, 2799>>, <<2918, 2927>>,
    <<2930, 2935>>, <<3046, 3058>>, <<3174, 3183>>, <<3192, 3198>>,
    <<3302, 3311>>, <<3416, 3422>>, <<3430, 3448>>, <<3558, 3567>>,
    <<3664, 3673>>, <<3792, 3801>>, <<3872, 3891>>, <<4160, 4169>>,
    <<4240, 4249>>, <<4969, 4988>>, <<5870, 5872>>, <<6112, 6121>>,
    <<6128, 6137>>, <<6160, 6169>>, <<6470, 6479>>, <<6608, 6618>>,
    <<6784, 6793>>, <<6800, 6809>>, <<6992, 7001>>, <<7088, 7097>>,
    <<7232, 7241>>, <<7248, 7257>>, <<8304, 8304>>, <<8308, 8313>>,
    <<8320, 8329>>, <<8528, 8578>>, <<8581, 8585>>, <<9312, 9371>>,
    <<9450, 9471>>, <<10102, 10131>>, <<11517, 11517>>, <<12295, 12295>>,
    <<12321, 12329>>, <<12344, 12346>>, <<12690, 12693>>, <<12832, 12841>>,
    <<12872, 12879>>, <<12881, 12895>>, <<12928, 12937>>, <<12977, 12991>>,
    <<13317, 13317>>, <<13443, 13443>>, <<14378, 14378>>, <<15181, 15181>>,
    <<19968, 19968>>, <<19971, 19971>>, <<19975, 19975>>, <<19977, 19977>>,
    <<20061, 20061>>, <<20108, 20108>>, <<20116, 20116>>, <<20118, 20118>>,
    <<20159, 20160>>, <<20191, 20191>>, <<20200, 20200>>, <<20237, 20237>>,
    <<20336, 20336>>, <<20740, 20740>>, <<20806, 20806>>, <<20841, 20841>>,
    <<20843, 20843>>, <<20845, 20845>>, <<21313, 21313>>, <<21315, 21317>>,
    <<21324, 21324>>, <<21441, 21444>>, <<22235, 22235>>, <<22769, 22769>>,
    <<22777, 22777>>, <<24186, 24186>>, <<24318, 24319>>, <<24332, 24334>>,
    <<24336, 24336>>, <<25342, 25342>>, <<25420, 25420>>, <<26578, 26578>>,
    <<28422, 28422>>, <<29590, 29590>>, <<30334, 30334>>, <<32902, 32902>>,
    <<33836, 33836>>, <<36014, 36014>>, <<36019, 36019>>, <<36144, 36144>>,
    <<38433, 38433>>, <<38470, 38470>>, <<38476, 38476>>, <<38520, 38520>>,
    <<38646, 38646>>, <<42528, 42537>>, <<42726, 42735>>, <<43056, 43061>>,
    <<43216, 43225>>, <<43264, 43273>>, <<43472, 43481>>, <<43504, 43513>>,
    <<43600, 43609>>, <<44016, 44025>>, <<63851, 63851>>, <<63859, 63859>>,
    <<63864, 63864>>, <<63922, 63922>>, <<63953, 63953>>, <<63955, 63955>>,
    <<63997, 63997>>, <<65296, 65305>>, <<65799, 65843>>, <<65856, 65912>>,
    <<65930, 65931>>, <<66273, 66299>>, <<66336, 66339>>, <<66369, 66369>>,
    <<66378, 66378>>, <<66513, 66517>>, <<66720, 66729>>, <<67672, 67679>>,
    <<67705, 67711>>, <<67751, 67759>>, <<67835, 67839>>, <<67862, 67867>>,
    <<68028, 68029>>, <<68032, 68047>>, <<68050, 68095>>, <<68160, 68168>>,
    <<68221, 68222>>, <<68253, 68255>>, <<68331, 68335>>, <<68440, 68447>>,
    <<68472, 68479>>, <<68521, 68527>>, <<68858, 68863>>, <<68912, 68921>>,
    <<69216, 69246>>, <<69405, 69414>>, <<69457, 69460>>, <<69573, 69579>>,
    <<69714, 69743>>, <<69872, 69881>>, <<69942, 69951>>, <<70096, 70105>>,
    <<70113, 70132>>, <<70384, 70393>>, <<70736, 70745>>, <<70864, 70873>>,
    <<71248, 71257>>, <<71360, 71369>>, <<71472, 71483>>, <<71904, 71922>>,
    <<72016, 72025>>, <<72784, 72812>>, <<73040, 73049>>, <<73120, 73129>>,
    <<73664, 73684>>, <<74752, 74862>>, <<92768, 92777>>, <<92864, 92873>>,
    <<93008, 93017>>, <<93019, 93025>>, <<93824, 93846>>, <<119520, 119539>>,
    <<119648, 119672>>, <<120782, 120831>>, <<123200, 123209>>,
    <<123632, 123641>>, <<125127, 125135>>, <<125264, 125273>>,
    <<126065, 126123>>, <<126125, 126127>>, <<126129, 126132>>,
    <<126209, 126253>>, <<126255, 126269>>, <<127232, 127244>>,
    <<130032, 130041>>, <<131073, 131073>>, <<131172, 131172>>,
    <<131298, 131298>>, <<131361, 131361>>, <<133418, 133418>>,
    <<133507, 133507>>, <<133516, 133516>>, <<133532, 133532>>,
    <<133866, 133866>>, <<133885, 133885>>, <<133913, 133913>>,
    <<140176, 140176>>, <<141720, 141720>>, <<146203, 146203>>,
    <<156269, 156269>>, <<194704, 194704>>
}

\* str.isalpha() of one code point; below U+0080 the table holds A-Z and
\* a-z and nothing else
IsLetter(c) == IF c < 128 THEN c \in UpperLatin \cup LowerLatin
               ELSE InRanges(c, AlphaRanges)

\* str.isnumeric() of one code point; below U+0080 the table holds 0-9 and
\* nothing else
IsNumeric(c) == IF c < 128 THEN c \in Digits
                ELSE InRanges(c, NumericRanges)

\* str.isalnum() of one code point: isalpha() or isdecimal() or isdigit()
\* or isnumeric()
IsAlnumChar(c) == IsLetter(c) \/ IsNumeric(c)

\* str.isalnum(): every code point alphanumeric and at least one code point
isalnum(v) == Len(v) > 0 /\ \A i \in 1..Len(v) : IsAlnumChar(v[i])

\* re.search(r'[...]', v) is not None, for a one-character class
search(class, v) == \E i \in 1..Len(v) : v[i] \in class

\* the character class [A-Za-z\s\-\'\.]
NameChars == UpperLatin \cup LowerLatin \cup Whitespace \cup {45, 39, 46}

\* re.match(r'^[A-Za-z\s\-\'\.]+$', v) is not None.  "$" also matches
\* before a final "\n", which the class admits anyway.
match_name(v) == Len(v) >= 1 /\ \A i \in 1..Len(v) : v[i] \in NameChars

None == <<-1>>

-----------------------------------------------------------------------------
(* models.py: the field validators.  A validator returns its value or      *)
(* raises ValueError(msg).                                                 *)

MinPasswordLen == 8
MinUsernameLen == 3
MaxUsernameLen == 20
MinFullNameLen == 2
MaxFullNameLen == 50

Return(v) == [ok |-> TRUE, value |-> v, msg |-> ""]
Raise(v, m) == [ok |-> FALSE, value |-> v, msg |-> m]

MsgPwdLength == "Password must be at least 8 characters long"
MsgPwdUpper == "Password must contain at least one uppercase letter"
MsgPwdLower == "Password must contain at least one lowercase letter"
MsgPwdDigit == "Password must contain at least one number"
MsgPwdSpecial == "Password must contain at least one special character"
MsgUserAlnum == "Username must be alphanumeric (letters and numbers only)"
MsgUserShort == "Username must be at least 3 characters long"
MsgUserLong == "Username must be at most 20 characters long"
MsgNameChars == "Full name can only contain letters, spaces, hyphens, apostrophes, and periods"
MsgNameShort == "Full name must be at least 2 characters long"
MsgNameLong == "Full name must be at most 50 characters long"

\* the length test off by one
password_must_be_strong_offbyone(v) ==
    IF Len(v) <= MinPasswordLen THEN Raise(v, MsgPwdLength)
    ELSE IF ~search(UpperLatin, v) THEN Raise(v, MsgPwdUpper)
    ELSE IF ~search(LowerLatin, v) THEN Raise(v, MsgPwdLower)
    ELSE IF ~search(Digits, v) THEN Raise(v, MsgPwdDigit)
    ELSE IF ~search(SpecialChars, v) THEN Raise(v, MsgPwdSpecial)
    ELSE Return(v)

\* the lowercase test moved before the uppercase test
password_must_be_strong_reordered(v) ==
    IF Len(v) < MinPasswordLen THEN Raise(v, MsgPwdLength)
    ELSE IF ~search(LowerLatin, v) THEN Raise(v, MsgPwdLower)
    ELSE IF ~search(UpperLatin, v) THEN Raise(v, MsgPwdUpper)
    ELSE IF ~search(Digits, v) THEN Raise(v, MsgPwdDigit)
    ELSE IF ~search(SpecialChars, v) THEN Raise(v, MsgPwdSpecial)
    ELSE Return(v)

password_must_be_strong(v) ==
    IF Len(v) < MinPasswordLen THEN Raise(v, MsgPwdLength)
    ELSE IF ~search(UpperLatin, v) THEN Raise(v, MsgPwdUpper)
    ELSE IF ~search(LowerLatin, v) THEN Raise(v, MsgPwdLower)
    ELSE IF ~search(Digits, v) THEN Raise(v, MsgPwdDigit)
    ELSE IF ~search(SpecialChars, v) THEN Raise(v, MsgPwdSpecial)
    ELSE Return(v)

\* the upper length test off by one
username_must_be_alphanumeric_offbyone(v) ==
    IF ~isalnum(v) THEN Raise(v, MsgUserAlnum)
    ELSE IF Len(v) < MinUsernameLen THEN Raise(v, MsgUserShort)
    ELSE IF Len(v) >= MaxUsernameLen THEN Raise(v, MsgUserLong)
    ELSE Return(v)

username_must_be_alphanumeric(v) ==
    IF ~isalnum(v) THEN Raise(v, MsgUserAlnum)
    ELSE IF Len(v) < MinUsernameLen THEN Raise(v, MsgUserShort)
    ELSE IF Len(v) > MaxUsernameLen THEN Raise(v, MsgUserLong)
    ELSE Return(v)

full_name_must_be_proper_format(v) ==
    IF v # None
    THEN IF ~match_name(v) THEN Raise(v, MsgNameChars)
         ELSE IF Len(v) < MinFullNameLen THEN Raise(v, MsgNameShort)
         ELSE IF Len(v) > MaxFullNameLen THEN Raise(v, MsgNameLong)
         ELSE Return(v)
    ELSE Return(v)

-----------------------------------------------------------------------------
(* models.py: email: EmailStr.  Pydantic refuses a value of more than 2048 *)
(* code points, unwraps the form "Name <address>", strips the whitespace   *)
(* around the address and hands it to the email grammar library; the field *)
(* becomes the library's normalised address.  The library's grammar is     *)
(* modelled for ASCII domains, its reasons by their leading sentence.      *)

MAX_EMAIL_LENGTH == 2048

\* the first index from i upwards, and the last from i downwards, at which
\* v holds a code point outside (inside = FALSE) or inside the set S;
\* Len(v) + 1 and 0 when there is none
RECURSIVE FirstFrom(_, _, _, _)
FirstFrom(v, i, S, inside) ==
    IF i > Len(v) \/ (v[i] \in S) = inside THEN i
    ELSE FirstFrom(v, i + 1, S, inside)

RECURSIVE LastFrom(_, _, _, _)
LastFrom(v, i, S, inside) ==
    IF i < 1 \/ (v[i] \in S) = inside THEN i
    ELSE LastFrom(v, i - 1, S, inside)

\* str.strip()
strip(v) == SubSeq(v, FirstFrom(v, 1, Whitespace, FALSE),
                      LastFrom(v, Len(v), Whitespace, FALSE))

\* [\w!#$%&'*+\-/=?^_`{|}~]: \w is str.isalnum() or "_"
IsPrettyNameChar(c) ==
    IsAlnumChar(c) \/ c \in {33, 35, 36, 37, 38, 39, 42, 43, 45, 47, 61, 63, 94, 95, 96, 123, 124, 125, 126}

\* pretty_email_regex.fullmatch(v): \s*(name|"quoted name")?\s*<(.+)>\s*
\* and the text of its last group; v itself when there is no match.  A
\* quoted name is matched greedily, "." matches anything but "\n" (10).
PrettyGroup(v, s, e) ==
    LET NoNewline(a, b) == \A j \in a..b : v[j] # 10
        \* the closing quotes q that a "<" follows, after whitespace only,
        \* with a text without newline between it and the final ">"
        Open(q) == FirstFrom(v, q + 1, Whitespace, FALSE)
        quotes == {q \in (s + 2)..(e - 1) :
                      /\ v[q] = 34
                      /\ Open(q) <= e - 2 /\ v[Open(q)] = 60
                      /\ NoNewline(Open(q) + 1, e - 1)}
        lastq == CHOOSE q \in quotes : \A r \in quotes : r <= q
        k == FirstFrom(v, s, {60}, TRUE)
    IN  IF v[e] # 62 THEN v
        ELSE IF v[s] = 34
        THEN IF quotes = {} THEN v
             ELSE SubSeq(v, Open(lastq) + 1, e - 1)
        ELSE IF /\ k <= e - 2
                /\ \A j \in 1..(k - 1) :
                      v[j] \in Whitespace \/ IsPrettyNameChar(v[j])
                /\ NoNewline(k + 1, e - 1)
             THEN SubSeq(v, k + 1, e - 1)
             ELSE v

PrettyEmail(v) ==
    IF \A i \in 1..Len(v) : v[i] \in Whitespace THEN v
    ELSE PrettyGroup(v, FirstFrom(v, 1, Whitespace, FALSE),
                        LastFrom(v, Len(v), Whitespace, FALSE))

\* str.lower() of an ASCII letter
lower(c) == IF c \in UpperLatin THEN c + 32 ELSE c


\* the characters of an unquoted local part: ASCII letters and digits,
\* !#$%&'*+-/=?^_`{|}~, the period, and letters and digits beyond ASCII
IsLocalChar(c) ==
    \/ c \in UpperLatin \cup LowerLatin \cup Digits
    \/ c \in {33, 35, 36, 37, 38, 39, 42, 43, 45, 47, 61, 63, 94, 95, 96, 123, 124, 125, 126} \cup {46}
    \/ c > 127 /\ IsAlnumChar(c)

DomainChars == UpperLatin \cup LowerLatin \cup Digits \cup {45, 46}

\* email_validator.validate_email(email, check_deliverability=False): the
\* normalised address (the domain in lower case), or EmailNotValidError
email_validator(email) ==
    IF \A i \in 1..Len(email) : email[i] # 64
    THEN Raise(email, "An email address must have an @-sign.")
    ELSE
    LET at == LastFrom(email, Len(email), {64}, TRUE)
        local == SubSeq(email, 1, at - 1)
        domain == SubSeq(email, at + 1, Len(email))
        TwoPeriods(s) == \E i \in 1..(Len(s) - 1) : s[i] = 46 /\ s[i + 1] = 46
    IN  IF local = <<>>
        THEN Raise(email, "There must be something before the @-sign.")
        ELSE IF domain = <<>>
        THEN Raise(email, "There must be something after the @-sign.")
        ELSE IF \E i \in 1..Len(local) : ~IsLocalChar(local[i])
        THEN Raise(email, "The email address contains invalid characters before the @-sign.")
        ELSE IF local[1] = 46
        THEN Raise(email, "An email address cannot start with a period.")
        ELSE IF local[Len(local)] = 46
        THEN Raise(email, "An email address cannot have a period immediately before the @-sign.")
        ELSE IF TwoPeriods(local) \/ TwoPeriods(domain)
        THEN Raise(email, "An email address cannot have two periods in a row.")
        ELSE IF \E i \in 1..Len(domain) : domain[i] \notin DomainChars
        THEN Raise(email, "The part after the @-sign contains invalid characters.")
        ELSE IF domain[1] = 46
        THEN Raise(email, "An email address cannot have a period immediately after the @-sign.")
        ELSE IF domain[Len(domain)] = 46
        THEN Raise(email, "An email address cannot end with a period.")
        ELSE IF \A i \in 1..Len(domain) : domain[i] # 46
        THEN Raise(email, "The part after the @-sign is not valid. It should have a period.")
        ELSE Return([i \in 1..Len(email) |->
                        IF i > at THEN lower(email[i]) ELSE email[i]])

\* the {reason} of pydantic's error; "" when the value is accepted
EmailReason(v) ==
    IF Len(v) > MAX_EMAIL_LENGTH THEN "Length must not exceed 2048 characters"
    ELSE email_validator(strip(PrettyEmail(v))).msg

MsgEmail == "value is not a valid email address: "

\* pydantic.networks.validate_email behind EmailStr
EmailStr(v) ==
    IF Len(v) > MAX_EMAIL_LENGTH THEN Raise(v, MsgEmail \o EmailReason(v))
    ELSE LET r == email_validator(strip(PrettyEmail(v)))
         IN  IF r.ok THEN Return(r.value) ELSE Raise(v, MsgEmail \o EmailReason(v))

-----------------------------------------------------------------------------
(* models.py: class UserCreate(BaseModel).  Pydantic validates the fields  *)
(* in declaration order, runs each field's validator, and collects one     *)
(* error per failing field; the model is built only when there is none.    *)

FieldNames == <<"username", "email", "password", "full_name">>

FieldResult(f, body) ==
    CASE f = "username" -> username_must_be_alphanumeric(body.username)
      [] f = "email" -> EmailStr(body.email)
      [] f = "password" -> password_must_be_strong(body.password)
      [] f = "full_name" -> full_name_must_be_proper_format(body.full_name)

\* one entry of the 422 body's "detail" list: a validator's ValueError is
\* reported as "Value error, <message>"; its context holds the exception,
\* which the JSON encoding of the response turns into an empty object (the
\* empty function <<>>), the email error has its reason as context
ErrorEntry(f, r) ==
    [type |-> "value_error", loc |-> <<"body", f>>,
     msg |-> IF f = "email" THEN r.msg ELSE "Value error, " \o r.msg,
     input |-> r.value,
     ctx |-> IF f = "email" THEN [reason |-> EmailReason(r.value)]
             ELSE [error |-> <<>>]]

RECURSIVE ErrorsFrom(_, _)
ErrorsFrom(k, body) ==
    IF k > Len(FieldNames) THEN <<>>
    ELSE LET r == FieldResult(FieldNames[k], body)
         IN  (IF r.ok THEN <<>> ELSE <<ErrorEntry(FieldNames[k], r)>>)
             \o ErrorsFrom(k + 1, body)

\* validation stopping at the first failing field
ValidationErrors_first(body) ==
    IF ErrorsFrom(1, body) = <<>> THEN <<>> ELSE <<Head(ErrorsFrom(1, body))>>

\* the field validators not registered
ValidationErrors_none(body) == <<>>

ValidationErrors(body) == ErrorsFrom(1, body)

\* the UserCreate instance handed to the handler
UserCreate(body) ==
    [username |-> FieldResult("username", body).value,
     email |-> FieldResult("email", body).value,
     password |-> FieldResult("password", body).value,
     full_name |-> FieldResult("full_name", body).value]

-----------------------------------------------------------------------------
(* main.py: the handlers.                                                  *)

\* datetime.isoformat() of the clock reading t, in microseconds after a
\* fixed midnight: six fraction digits, left out when the fraction is zero
isoformat(t) ==
    LET us == t % 1000000
        s  == t \div 1000000
        two(n) == (IF n < 10 THEN "0" ELSE "") \o ToString(n)
        six(n) == (IF n < 10 THEN "00000"
                   ELSE IF n < 100 THEN "0000"
                   ELSE IF n < 1000 THEN "000"
                   ELSE IF n < 10000 THEN "00"
                   ELSE IF n < 100000 THEN "0"
                   ELSE "") \o ToString(n)
    IN  "2024-01-01T" \o two((s \div 3600) % 24) \o ":" \o two((s \div 60) % 60)
            \o ":" \o two(s % 60)
            \o (IF us = 0 THEN "" ELSE "." \o six(us))

\* the dict built by create_user
db_user(user_data, t) ==
    [username |-> user_data.username,
     email |-> user_data.email,
     full_name |-> user_data.full_name,
     join_date |-> isoformat(t),
     password |-> user_data.password,
     validation_status |-> "passed"]

\* the record inserted at the head of the list
append_front(db, rec) == <<rec>> \o db

\* the record written over the last one
append_overwrite(db, rec) ==
    IF db = <<>> THEN <<rec>> ELSE [db EXCEPT ![Len(db)] = rec]

\* fake_db.append(db_user)
append(db, rec) == Append(db, rec)

\* no response model: the dict is sent as it is
UserOut_unfiltered(d) == d

\* response_model=UserOut: the response body is the returned dict read
\* through the output model, which keeps its own fields only
UserOut(d) ==
    [username |-> d.username,
     email |-> EmailStr(d.email).value,
     full_name |-> d.full_name,
     join_date |-> d.join_date,
     validation_status |-> d.validation_status]

\* the description out of step with the username validator
get_validation_rules_stale ==
    [password_rules |->
        [min_length |-> 8, requires_uppercase |-> TRUE,
         requires_lowercase |-> TRUE, requires_number |-> TRUE,
         requires_special_char |-> TRUE],
     username_rules |->
        [alphanumeric_only |-> TRUE, min_length |-> 3, max_length |-> 21],
     full_name_rules |->
        [allowed_characters |-> "letters, spaces, hyphens, apostrophes, periods",
         min_length |-> 2, max_length |-> 50, optional |-> TRUE]]

get_validation_rules ==
    [password_rules |->
        [min_length |-> 8, requires_uppercase |-> TRUE,
         requires_lowercase |-> TRUE, requires_number |-> TRUE,
         requires_special_char |-> TRUE],
     username_rules |->
        [alphanumeric_only |-> TRUE, min_length |-> 3, max_length |-> 20],
     full_name_rules |->
        [allowed_characters |-> "letters, spaces, hyphens, apostrophes, periods",
         min_length |-> 2, max_length |-> 50, optional |-> TRUE]]

root ==
    [message |-> "FastAPI Advanced Validation Demo",
     endpoints |->
        [create_user |-> "POST /users/",
         validation_rules |-> "GET /validation-rules/",
         interactive_docs |-> "GET /docs"]]

HTTP_201_CREATED == 201
HTTP_422_UNPROCESSABLE == 422
HTTP_200_OK == 200

NoBody == [empty |-> TRUE]

-----------------------------------------------------------------------------
(* Bounds and inputs.                                                      *)

MaxUsers == 2          \* records stored in one run of the service
MaxClock == 1          \* the largest reading of the clock
NumConns == 2          \* overlapping create-user requests
MaxPwdPrefix == 4      \* free code points at the head of a password
MaxPwdPad == 4         \* "_"s appended to it
MaxUserPrefix == 2     \* free code points at the head of a username
MaxUserPad == 19       \* "a"s appended to it
MaxNamePrefix == 2     \* free code points at the head of a full name
MaxNamePad == 49       \* "a"s appended to it

\* every text over S of at most n code points
Texts(S, n) == UNION {[1..m -> S] : m \in 0..n}

\* s followed by k times the code point c
Padded(s, c, k) == s \o [i \in 1..k |-> c]

\* "A", "a", "1", "!", "_", U+00C9 (E with acute)
PwdAlphabet == {65, 97, 49, 33, 95, 201}
\* "A", "a", "1", "_", " ", U+00E9 (e with acute), U+00BD (one half),
\* U+0663 (Arabic-Indic digit three)
UserAlphabet == {65, 97, 49, 95, 32, 233, 189, 1635}
\* "Z", "a", "1", " ", "-", "'", ".", tab, U+00E9, U+2003 (em space)
NameAlphabet == {90, 97, 49, 32, 45, 39, 46, 9, 233, 8195}

PasswordInputs ==
    {Padded(s, 95, k) : s \in Texts(PwdAlphabet, MaxPwdPrefix), k \in 0..MaxPwdPad}
UsernameInputs ==
    {Padded(s, 97, k) : s \in Texts(UserAlphabet, MaxUserPrefix), k \in 0..MaxUserPad}
FullNameInputs ==
    {None} \cup
    {Padded(s, 97, k) : s \in Texts(NameAlphabet, MaxNamePrefix), k \in 0..MaxNamePad}

\* request bodies of the service runs
\* "ab1", "a_"
ReqUsernames == {<<97, 98, 49>>, <<97, 95>>}
\* "a@B.co", "Bo <a@b.co> ", "a@b"
ReqEmails == {<<97, 64, 66, 46, 99, 111>>,
              <<66, 111, 32, 60, 97, 64, 98, 46, 99, 111, 62, 32>>,
              <<97, 64, 98>>}
\* "Str0ng!Pass", "weak"
ReqPasswords == {<<83, 116, 114, 48, 110, 103, 33, 80, 97, 115, 115>>,
                 <<119, 101, 97, 107>>}
\* None, "Al", "J1"
ReqFullNames == {None, <<65, 108>>, <<74, 49>>}

Bodies == [username : ReqUsernames, email : ReqEmails,
           password : ReqPasswords, full_name : ReqFullNames]

\* request bodies of the overlapping requests
\* usernames "ab1", "Bob"; email "a@B.co"; passwords "Str0ng!Pass", "weak"
ConnBodies == [username : {<<97, 98, 49>>, <<66, 111, 98>>},
               email : {<<97, 64, 66, 46, 99, 111>>},
               password : {<<83, 116, 114, 48, 110, 103, 33, 80, 97, 115, 115>>,
                           <<119, 101, 97, 107>>},
               full_name : {None}]

Conns == 1..NumConns

NotCalled == [ok |-> FALSE, value |-> <<>>, msg |-> "<not called>"]
NoRequest == [op |-> "none", body |-> NoBody]
NoResponse == [status |-> 0, body |-> NoBody]

SysInit == /\ fake_db = <<>>
           /\ clock = 0
           /\ request = NoRequest
           /\ response = NoResponse

ValIdle == /\ field = "none"
           /\ value = <<>>
           /\ outcome = NotCalled

ConnIdle == /\ conn_pc = [i \in Conns |-> "idle"]
            /\ conn_req = [i \in Conns |-> NoBody]
            /\ conn_user = [i \in Conns |-> NoBody]
            /\ conn_resp = [i \in Conns |-> NoResponse]

-----------------------------------------------------------------------------
(* The service, one request at a time.                                     *)

Init == SysInit /\ ValIdle /\ ConnIdle

\* POST /users/ served alone: pydantic validates the body before
\* create_user runs, a failure is answered 422 and the handler is never
\* called; datetime.now() gives any reading
CreateUser(body) ==
    /\ request' = [op |-> "create_user", body |-> body]
    /\ LET errors == ValidationErrors(body)
       IN
       IF errors # <<>>
       THEN /\ response' = [status |-> HTTP_422_UNPROCESSABLE,
                            body |-> [detail |-> errors]]
            /\ UNCHANGED <<fake_db, clock>>
       ELSE /\ Len(fake_db) < MaxUsers
            /\ \E t \in 0..MaxClock :
                  LET rec == db_user(UserCreate(body), t)
                  IN  /\ clock' = t
                      /\ fake_db' = append(fake_db, rec)
                      /\ response' = [status |-> HTTP_201_CREATED,
                                      body |-> UserOut(rec)]
    /\ UNCHANGED <<valVars, connVars>>

\* GET /validation-rules/
GetValidationRules ==
    /\ request' = [op |-> "get_validation_rules", body |-> NoBody]
    /\ response' = [status |-> HTTP_200_OK, body |-> get_validation_rules]
    /\ UNCHANGED <<fake_db, clock, valVars, connVars>>

\* GET /
Root ==
    /\ request' = [op |-> "root", body |-> NoBody]
    /\ response' = [status |-> HTTP_200_OK, body |-> root]
    /\ UNCHANGED <<fake_db, clock, valVars, connVars>>

Next == \/ \E body \in Bodies : CreateUser(body)
        \/ GetValidationRules
        \/ Root

Spec == Init /\ [][Next]_vars

-----------------------------------------------------------------------------
(* The field validators applied to bounded inputs.                         *)

InitValidate ==
    /\ SysInit /\ ConnIdle
    /\ outcome = NotCalled
    /\ \/ field = "password" /\ value \in PasswordInputs
       \/ field = "username" /\ value \in UsernameInputs
       \/ field = "full_name" /\ value \in FullNameInputs

ValidatePassword ==
    /\ field = "password" /\ outcome = NotCalled
    /\ outcome' = password_must_be_strong(value)
    /\ UNCHANGED <<field, value, sysVars, connVars>>

ValidateUsername ==
    /\ field = "username" /\ outcome = NotCalled
    /\ outcome' = username_must_be_alphanumeric(value)
    /\ UNCHANGED <<field, value, sysVars, connVars>>

ValidateFullName ==
    /\ field = "full_name" /\ outcome = NotCalled
    /\ outcome' = full_name_must_be_proper_format(value)
    /\ UNCHANGED <<field, value, sysVars, connVars>>

NextValidate == ValidatePassword \/ ValidateUsername \/ ValidateFullName

SpecValidate == InitValidate /\ [][NextValidate]_vars

-----------------------------------------------------------------------------
(* Overlapping create-user requests.  Each is served by its own coroutine  *)
(* on one event loop: the body is read and validated (suspension points    *)
(* before and after), create_user runs from its first line to its return   *)
(* without an await, and the returned dict is serialised afterwards.       *)

InitConn ==
    /\ fake_db = <<>> /\ clock = 0
    /\ request = NoRequest /\ response = NoResponse
    /\ ValIdle
    /\ conn_pc = [i \in Conns |-> "received"]
    /\ conn_req \in [Conns -> ConnBodies]
    /\ conn_user = [i \in Conns |-> NoBody]
    /\ conn_resp = [i \in Conns |-> NoResponse]

\* request validation: UserCreate is built, or 422 is answered
ConnValidate(i) ==
    /\ conn_pc[i] = "received"
    /\ IF ValidationErrors(conn_req[i]) # <<>>
       THEN /\ conn_resp' = [conn_resp EXCEPT ![i] =
                   [status |-> HTTP_422_UNPROCESSABLE,
                    body |-> [detail |-> ValidationErrors(conn_req[i])]]]
            /\ conn_pc' = [conn_pc EXCEPT ![i] = "done"]
       ELSE /\ conn_pc' = [conn_pc EXCEPT ![i] = "validated"]
            /\ UNCHANGED conn_resp
    /\ UNCHANGED <<fake_db, clock, request, response, conn_req, conn_user, valVars>>

\* the body of create_user: no suspension point from db_user = {...} to return
ConnHandle(i) ==
    /\ conn_pc[i] = "validated"
    /\ \E t \in 0..MaxClock :
          LET rec == db_user(UserCreate(conn_req[i]), t)
          IN  /\ clock' = t
              /\ fake_db' = append(fake_db, rec)
              /\ conn_user' = [conn_user EXCEPT ![i] = rec]
    /\ conn_pc' = [conn_pc EXCEPT ![i] = "returned"]
    /\ UNCHANGED <<request, response, conn_req, conn_resp, valVars>>

\* the returned dict is serialised through response_model and sent
ConnRespond(i) ==
    /\ conn_pc[i] = "returned"
    /\ conn_resp' = [conn_resp EXCEPT ![i] =
           [status |-> HTTP_201_CREATED, body |-> UserOut(conn_user[i])]]
    /\ conn_pc' = [conn_pc EXCEPT ![i] = "done"]
    /\ UNCHANGED <<fake_db, clock, request, response, conn_req, conn_user, valVars>>

NextConn == \E i \in Conns : ConnValidate(i) \/ ConnHandle(i) \/ ConnRespond(i)

SpecConn == InitConn /\ [][NextConn]_vars

-----------------------------------------------------------------------------
(* The rules as the specification words them.                              *)

HasUpper(v) == \E i \in DOMAIN v : v[i] \in UpperLatin
HasLower(v) == \E i \in DOMAIN v : v[i] \in LowerLatin
HasDigit(v) == \E i \in DOMAIN v : v[i] \in Digits
HasSpecial(v) == \E i \in DOMAIN v : v[i] \in SpecialChars

\* the code points of str.isdigit(), as ranges: the decimal digits of every
\* script and the digits written as superscripts, subscripts or in circles
DigitRanges == {
    <<48, 57>>, <<178, 179>>, <<185, 185>>, <<1632, 1641>>, <<1776, 1785>>,
    <<1984, 1993>>, <<2406, 2415>>, <<2534, 2543>>, <<2662, 2671>>,
    <<2790, 2799>>, <<2918, 2927>>, <<3046, 3055>>, <<3174, 3183>>,
    <<3302, 3311>>, <<3430, 3439>>, <<3558, 3567>>, <<3664, 3673>>,
    <<3792, 3801>>, <<3872, 3881>>, <<4160, 4169>>, <<4240, 4249>>,
    <<4969, 4977>>, <<6112, 6121>>, <<6160, 6169>>, <<6470, 6479>>,
    <<6608, 6618>>, <<6784, 6793>>, <<6800, 6809>>, <<6992, 7001>>,
    <<7088, 7097>>, <<7232, 7241>>, <<7248, 7257>>, <<8304, 8304>>,
    <<8308, 8313>>, <<8320, 8329>>, <<9312, 9320>>, <<9332, 9340>>,
    <<9352, 9360>>, <<9450, 9450>>, <<9461, 9469>>, <<9471, 9471>>,
    <<10102, 10110>>, <<10112, 10120>>, <<10122, 10130>>, <<42528, 42537>>,
    <<43216, 43225>>, <<43264, 43273>>, <<43472, 43481>>, <<43504, 43513>>,
    <<43600, 43609>>, <<44016, 44025>>, <<65296, 65305>>, <<66720, 66729>>,
    <<68160, 68163>>, <<68912, 68921>>, <<69216, 69224>>, <<69714, 69722>>,
    <<69734, 69743>>, <<69872, 69881>>, <<69942, 69951>>, <<70096, 70105>>,
    <<70384, 70393>>, <<70736, 70745>>, <<70864, 70873>>, <<71248, 71257>>,
    <<71360, 71369>>, <<71472, 71481>>, <<71904, 71913>>, <<72016, 72025>>,
    <<72784, 72793>>, <<73040, 73049>>, <<73120, 73129>>, <<92768, 92777>>,
    <<92864, 92873>>, <<93008, 93017>>, <<120782, 120831>>,
    <<123200, 123209>>, <<123632, 123641>>, <<125264, 125273>>,
    <<127232, 127242>>, <<130032, 130041>>
}

\* "a digit", read as widely as Unicode reads it
IsDigit(c) == IF c < 128 THEN c \in Digits ELSE InRanges(c, DigitRanges)

AllLettersOrDigits(v) == \A i \in DOMAIN v : IsLetter(v[i]) \/ IsDigit(v[i])

\* "alphanumeric (letters and numbers only)": letters and the characters
\* with a numeric value, which besides the digits are fractions, Roman
\* numerals and the like
AllLettersOrNumbers(v) == \A i \in DOMAIN v : IsLetter(v[i]) \/ IsNumeric(v[i])

\* "a letter, a whitespace character, a hyphen, an apostrophe or a period"
AllNameCharacters(v) ==
    \A i \in DOMAIN v : IsLetter(v[i]) \/ v[i] \in Whitespace \cup {45, 39, 46}

\* the same with the letters of the pattern, A-Z and a-z
AllLatinNameCharacters(v) ==
    \A i \in DOMAIN v :
        v[i] \in UpperLatin \cup LowerLatin \cup Whitespace \cup {45, 39, 46}

Called(f) == field = f /\ outcome # NotCalled

\* the classes a password lacks, and the message of each
MissingClassMsgs(v) ==
    {m \in {MsgPwdUpper, MsgPwdLower, MsgPwdDigit, MsgPwdSpecial} :
        \/ m = MsgPwdUpper /\ ~HasUpper(v)
        \/ m = MsgPwdLower /\ ~HasLower(v)
        \/ m = MsgPwdDigit /\ ~HasDigit(v)
        \/ m = MsgPwdSpecial /\ ~HasSpecial(v)}

\* C3: the password validator accepts a value exactly when it has at least
\* 8 code points, an uppercase Latin letter, a lowercase Latin letter, a
\* decimal digit and a special character, and then returns it unchanged.
C3_PasswordAcceptedIffAllRules ==
    Called("password") =>
        /\ outcome.ok <=> /\ Len(value) >= 8
                          /\ HasUpper(value) /\ HasLower(value)
                          /\ HasDigit(value) /\ HasSpecial(value)
        /\ outcome.ok => outcome.value = value

\* a password of exactly 8 code points has been accepted
C3_Witness == Called("password") /\ outcome.ok /\ Len(value) = 8

\* C4 as stated: every password lacking a character class is rejected with a
\* message naming a class it lacks.
C4_Original ==
    (Called("password") /\ MissingClassMsgs(value) # {}) =>
        ~outcome.ok /\ outcome.msg \in MissingClassMsgs(value)

\* C4 amended: a password of at least 8 code points lacking a character class
\* is rejected with the message of the first class it lacks, in the order
\* uppercase, lowercase, digit, special; a shorter password is rejected with
\* the length message whatever it lacks.
C4_MissingClassReported ==
    Called("password") =>
        /\ (Len(value) >= 8 /\ MissingClassMsgs(value) # {}) =>
              /\ ~outcome.ok
              /\ outcome.msg =
                    (IF ~HasUpper(value) THEN MsgPwdUpper
                     ELSE IF ~HasLower(value) THEN MsgPwdLower
                     ELSE IF ~HasDigit(value) THEN MsgPwdDigit
                     ELSE MsgPwdSpecial)
        /\ Len(value) < 8 => ~outcome.ok /\ outcome.msg = MsgPwdLength

\* a password long enough and lacking two classes was rejected for the first
C4_Witness ==
    /\ Called("password") /\ Len(value) >= 8
    /\ ~HasLower(value) /\ ~HasDigit(value) /\ HasUpper(value)
    /\ outcome.msg = MsgPwdLower

\* C5 as stated: the username validator accepts a value exactly when every
\* code point is a letter or a digit and there are 3 to 20 of them; the
\* empty string is rejected by the alphanumeric check.
C5_Original ==
    Called("username") =>
        /\ outcome.ok <=> /\ AllLettersOrDigits(value)
                          /\ Len(value) >= 3 /\ Len(value) <= 20
        /\ value = <<>> => ~outcome.ok /\ outcome.msg = MsgUserAlnum

\* C5 amended: the username validator accepts a value exactly when every
\* code point is a letter or a numeric character (a digit, or another
\* character with a numeric value such as a fraction or a Roman numeral) and
\* there are 3 to 20 of them, and returns it unchanged; the empty string is
\* rejected by the alphanumeric check, not by the length check.
C5_UsernameAcceptedIffRules ==
    Called("username") =>
        /\ outcome.ok <=> /\ AllLettersOrNumbers(value)
                          /\ Len(value) >= 3 /\ Len(value) <= 20
        /\ outcome.ok => outcome.value = value
        /\ Len(value) = 2 \/ Len(value) = 21 => ~outcome.ok
        /\ value = <<>> => ~outcome.ok /\ outcome.msg = MsgUserAlnum
        /\ (~outcome.ok /\ outcome.msg # MsgUserAlnum) => AllLettersOrNumbers(value)

\* a username of exactly 20 code points, one of them numeric and no digit,
\* has been accepted
C5_Witness ==
    /\ Called("username") /\ outcome.ok /\ Len(value) = 20
    /\ ~AllLettersOrDigits(value)

\* C6 as stated: an absent full name is accepted; a present one is accepted
\* exactly when every code point is a letter, whitespace, a hyphen, an
\* apostrophe or a period and there are 2 to 50 of them.
C6_Original ==
    Called("full_name") =>
        IF value = None THEN outcome.ok
        ELSE outcome.ok <=> /\ AllNameCharacters(value)
                            /\ Len(value) >= 2 /\ Len(value) <= 50

\* C8: the rules description agrees with the validators: its lengths are
\* the validators' acceptance boundaries, every class it requires is one whose
\* absence rejects a password, and the optional full name is accepted absent.
C8_RulesMatchValidators ==
    LET R == get_validation_rules
        P == R.password_rules
        U == R.username_rules
        F == R.full_name_rules
    IN  /\ Called("password") =>
              /\ Len(value) < P.min_length => ~outcome.ok
              /\ (Len(value) >= P.min_length
                    /\ (P.requires_uppercase => HasUpper(value))
                    /\ (P.requires_lowercase => HasLower(value))
                    /\ (P.requires_number => HasDigit(value))
                    /\ (P.requires_special_char => HasSpecial(value)))
                 => outcome.ok
              /\ P.requires_uppercase /\ ~HasUpper(value) => ~outcome.ok
              /\ P.requires_lowercase /\ ~HasLower(value) => ~outcome.ok
              /\ P.requires_number /\ ~HasDigit(value) => ~outcome.ok
              /\ P.requires_special_char /\ ~HasSpecial(value) => ~outcome.ok
        /\ (Called("username") /\ value # <<>> /\ AllLettersOrNumbers(value)) =>
              (outcome.ok <=> Len(value) >= U.min_length /\ Len(value) <= U.max_length)
        /\ (Called("full_name") /\ value # None /\ value # <<>>
              /\ AllLatinNameCharacters(value)) =>
              (outcome.ok <=> Len(value) >= F.min_length /\ Len(value) <= F.max_length)
        /\ (Called("full_name") /\ value = None) => (F.optional /\ outcome.ok)

\* a full name of exactly 50 code points has been accepted and one of the
\* described maximum is what the description promises
C8_Witness ==
    /\ Called("full_name") /\ value # None /\ outcome.ok
    /\ Len(value) = get_validation_rules.full_name_rules.max_length

-----------------------------------------------------------------------------
(* The service: what a request body must satisfy, as the specification     *)
(* words it.                                                               *)

UsernameOK(v) == v # <<>> /\ AllLettersOrNumbers(v) /\ Len(v) >= 3 /\ Len(v) <= 20

PasswordOK(v) == /\ Len(v) >= 8
                 /\ HasUpper(v) /\ HasLower(v) /\ HasDigit(v) /\ HasSpecial(v)

FullNameOK(v) ==
    v = None \/ (v # <<>> /\ AllLatinNameCharacters(v) /\ Len(v) >= 2 /\ Len(v) <= 50)

FieldOK(f, b) ==
    CASE f = "username" -> UsernameOK(b.username)
      [] f = "email" -> EmailStr(b.email).ok
      [] f = "password" -> PasswordOK(b.password)
      [] f = "full_name" -> FullNameOK(b.full_name)

BodyOK(b) == \A k \in DOMAIN FieldNames : FieldOK(FieldNames[k], b)

\* the offending fields, in declaration order
FailingOf(k, b) == ~FieldOK(FieldNames[k], b)
FailingFields(b) ==
    LET idx == {k \in DOMAIN FieldNames : FailingOf(k, b)}
        RECURSIVE Pick(_)
        Pick(k) == IF k > Len(FieldNames) THEN <<>>
                   ELSE (IF k \in idx THEN <<FieldNames[k]>> ELSE <<>>) \o Pick(k + 1)
    IN  Pick(1)

\* the message of the first rule an offending field violates
FirstRuleMsg(f, b) ==
    CASE f = "username" ->
            "Value error, " \o
            (IF b.username = <<>> \/ ~AllLettersOrNumbers(b.username) THEN MsgUserAlnum
             ELSE IF Len(b.username) < 3 THEN MsgUserShort ELSE MsgUserLong)
      [] f = "email" -> MsgEmail \o EmailReason(b.email)
      [] f = "password" ->
            "Value error, " \o
            (IF Len(b.password) < 8 THEN MsgPwdLength
             ELSE IF ~HasUpper(b.password) THEN MsgPwdUpper
             ELSE IF ~HasLower(b.password) THEN MsgPwdLower
             ELSE IF ~HasDigit(b.password) THEN MsgPwdDigit
             ELSE MsgPwdSpecial)
      [] f = "full_name" ->
            "Value error, " \o
            (IF b.full_name = <<>> \/ ~AllLatinNameCharacters(b.full_name)
             THEN MsgNameChars
             ELSE IF Len(b.full_name) < 2 THEN MsgNameShort ELSE MsgNameLong)

ViewFields == {"username", "email", "full_name", "join_date", "validation_status"}

\* the projection of a record onto the fields of the view
Project(r) == [f \in ViewFields |-> r[f]]

\* C1: a step of the service changes the storage only when it serves a
\* create-user request whose body passes validation, and then appends exactly
\* one record, made from that body, after the records already stored; every
\* other step (a rejected create-user, describe-rules, service-description)
\* leaves the storage as it was.
C1_StorageAppendOnly ==
    [][ IF request'.op = "create_user" /\ BodyOK(request'.body)
        THEN /\ Len(fake_db') = Len(fake_db) + 1
             /\ SubSeq(fake_db', 1, Len(fake_db)) = fake_db
             /\ LET rec == fake_db'[Len(fake_db')]
                IN  /\ rec.username = request'.body.username
                    /\ rec.password = request'.body.password
                    /\ rec.full_name = request'.body.full_name
        ELSE fake_db' = fake_db ]_vars

\* two records of the same username and email are stored, in the order of
\* their requests, and a rejected request has just been answered
C1_Witness ==
    /\ Len(fake_db) = 2
    /\ fake_db[1].username = fake_db[2].username
    /\ fake_db[1].email = fake_db[2].email
    /\ fake_db[1].full_name = None /\ fake_db[2].full_name # None
    /\ request.op = "create_user" /\ response.status = 422

\* C2: the body of a 201 response is the record just stored read through
\* exactly the fields username, email, full_name, join_date and
\* validation_status; the stored record holds the password and no response
\* body has a password field.
C2_ResponseIsProjection ==
    /\ response.status = 201 =>
          /\ Len(fake_db) >= 1
          /\ DOMAIN response.body = ViewFields
          /\ response.body = Project(fake_db[Len(fake_db)])
          /\ "password" \in DOMAIN fake_db[Len(fake_db)]
          /\ fake_db[Len(fake_db)].password = request.body.password
    /\ "password" \notin DOMAIN response.body

\* a record with a full name has been created and answered
C2_Witness ==
    /\ response.status = 201
    /\ response.body.full_name # None
    /\ Len(fake_db) = 2

\* C7 as stated: a rejected request is answered with a single failure.
C7_Original ==
    response.status = 422 => Len(response.body.detail) = 1

\* C7 amended: a request violating rules in one or more fields is rejected
\* as a whole and answered with one failure for every offending field, in
\* declaration order (username, email, password, full_name); each is the
\* first rule that field's validator finds violated, and further violations
\* within the same field are not reported.
C7_OneFailurePerField ==
    /\ (request.op = "create_user" /\ ~BodyOK(request.body)) => response.status = 422
    /\ response.status = 422 =>
          LET b == request.body
              detail == response.body.detail
              failing == FailingFields(b)
          IN  /\ failing # <<>>
              /\ Len(detail) = Len(failing)
              /\ \A k \in DOMAIN detail :
                    /\ detail[k].loc = <<"body", failing[k]>>
                    /\ detail[k].msg = FirstRuleMsg(failing[k], b)

\* a request offending in three fields has been answered
C7_Witness ==
    /\ response.status = 422
    /\ Len(response.body.detail) = 3
    /\ Len(fake_db) = 1

\* C9: every stored record has validation_status "passed" and a username, a
\* password and a full name that their validators accept.
C9_StoredRecordsValid ==
    \A k \in DOMAIN fake_db :
        /\ fake_db[k].validation_status = "passed"
        /\ username_must_be_alphanumeric(fake_db[k].username).ok
        /\ password_must_be_strong(fake_db[k].password).ok
        /\ full_name_must_be_proper_format(fake_db[k].full_name).ok
        /\ UsernameOK(fake_db[k].username)
        /\ PasswordOK(fake_db[k].password)
        /\ FullNameOK(fake_db[k].full_name)

\* two different records are stored
C9_Witness ==
    /\ Len(fake_db) = 2
    /\ fake_db[1].full_name # fake_db[2].full_name
    /\ fake_db[1].join_date # fake_db[2].join_date

\* C10: when all overlapping requests have completed, the storage holds
\* exactly one record for every accepted request and nothing else, each
\* accepted request was answered 201 with the view of its own record, and
\* each rejected request was answered 422.
C10_NoLostWrite ==
    (\A i \in Conns : conn_pc[i] = "done") =>
        LET acc == {i \in Conns : BodyOK(conn_req[i])}
        IN  /\ Len(fake_db) = Cardinality(acc)
            /\ \E f \in [acc -> DOMAIN fake_db] :
                  /\ \A i, j \in acc : f[i] = f[j] => i = j
                  /\ \A i \in acc :
                        /\ fake_db[f[i]].username = conn_req[i].username
                        /\ fake_db[f[i]].password = conn_req[i].password
                        /\ fake_db[f[i]].full_name = conn_req[i].full_name
                        /\ conn_resp[i].status = 201
                        /\ conn_resp[i].body = Project(fake_db[f[i]])
            /\ \A i \in Conns \ acc : conn_resp[i].status = 422

\* two accepted requests with different bodies have completed, the second
\* one's record stored first
C10_Witness ==
    /\ \A i \in Conns : conn_pc[i] = "done"
    /\ Len(fake_db) >= 2
    /\ conn_req[1] # conn_req[2]
    /\ fake_db[1].username = conn_req[2].username
    /\ fake_db[2].username = conn_req[1].username

=============================================================================
